---- MODULE Spec2Model ----
(***************************************************************************)
(* Model of scripts/verify_authorization.py: the AuthorizationVerifier     *)
(* run (run_all_tests and its six probe handlers), the report and main,    *)
(* and of migrate_files of docs/.archive/migrations/migrate_docs.py.       *)
(*                                                                         *)
(* The target service is the environment.  Each requests.post either       *)
(* raises a transport exception or returns a response (status, body).      *)
(* The target answers with one default outcome (target) and may answer     *)
(* up to MaxDeviations requests of a run with any other outcome.           *)
(***************************************************************************)
EXTENDS Integers, Sequences, FiniteSets, TLC

VARIABLES
    pc,          \* position of the run inside main / run_all_tests
    i,           \* loop index of the handler's enumerate(...) loop
    results,     \* self.results : List[TestResult]
    responses,   \* _test_rate_limiting: status codes of the burst so far
    response,    \* what the last completed requests.post produced
    inflight,    \* number of requests issued and not yet completed
    requests,    \* number of requests.post calls issued so far
    stdout,      \* report blocks printed by _print_results
    success,     \* main: value returned by run_all_tests (<<>> = not yet)
    exitcode,    \* argument of sys.exit (<<>> = process still running)
    target,      \* the outcome the target gives by default
    deviations,  \* requests answered with another outcome so far
    files,       \* migrate_docs.py: the files under SRC_DIR, by relative path
    files0,      \* the files under SRC_DIR when migrate_files was called
    frame        \* migrate_files: its position and its local variables

\* The variables of the AuthorizationVerifier run.
verifier == <<pc, i, results, responses, response, inflight, requests,
              stdout, success, exitcode, target, deviations>>

\* The variables of a migrate_files call.
migration == <<files, files0, frame>>

vars == <<verifier, migration>>

(***************************************************************************)
(* Bounds of the model.                                                    *)
(***************************************************************************)
MaxDeviations == 1

\* Number of MIGRATION_MAP entries a call of migrate_files goes through.
MapSize == 2

(***************************************************************************)
(* Python values.  Optional[T] is <<>> (None) or <<v>>.                    *)
(***************************************************************************)
None == <<>>

Some(v) == <<v>>

\* Truth value of an Optional[int] in a condition: None and 0 are falsy.
Truthy(opt) == opt # None /\ opt[1] # 0

\* str.lower() on the characters the error texts use.
UpperChars == "ABCDEFGHIJKLMNOPQRSTUVWXYZ"

LowerChars == "abcdefghijklmnopqrstuvwxyz"

LowerChar(c) ==
    IF \E k \in 1..Len(UpperChars) : SubSeq(UpperChars, k, k) = c
    THEN LET k == CHOOSE k \in 1..Len(UpperChars) : SubSeq(UpperChars, k, k) = c
         IN  SubSeq(LowerChars, k, k)
    ELSE c

\* The characters of s from position k on, in lower case.
RECURSIVE LowerFrom(_, _)
LowerFrom(s, k) ==
    IF k > Len(s) THEN ""
    ELSE LowerChar(SubSeq(s, k, k)) \o LowerFrom(s, k + 1)

Lower(s) == LowerFrom(s, 1)

\* Python's `needle in hay` for two strings: substring test.
Contains(needle, hay) ==
    \E k \in 1..(Len(hay) - Len(needle) + 1) :
        SubSeq(hay, k, k + Len(needle) - 1) = needle

\* f"{response.status_code}": decimal text of a status code.
DigitText(d) ==
    CASE d = 0 -> "0" [] d = 1 -> "1" [] d = 2 -> "2" [] d = 3 -> "3"
      [] d = 4 -> "4" [] d = 5 -> "5" [] d = 6 -> "6" [] d = 7 -> "7"
      [] d = 8 -> "8" [] d = 9 -> "9"

RECURSIVE IntText(_)
IntText(n) ==
    IF n < 10 THEN DigitText(n)
    ELSE IntText(n \div 10) \o DigitText(n % 10)

(***************************************************************************)
(* What the target can send.                                               *)
(***************************************************************************)
\* Status codes the target answers with.
Statuses == {200, 401, 429}

\* str(e) of the exceptions requests.post raises.
TransportErrors == {"ConnectionError", "Timeout"}

\* One GraphQL error of an "errors" list: a JSON string or a JSON object
\* {"message": ...}.
ErrUnauthorized == [t |-> "obj", message |-> "Unauthorized"]

ErrPermission == [t |-> "str", message |-> "No PERMISSION"]

ErrNotFound == [t |-> "obj", message |-> "Not found"]

ErrNearMiss == [t |-> "str", message |-> "Aut hor permision"]

ErrorLists ==
    { <<>>, <<ErrUnauthorized>>, <<ErrPermission>>, <<ErrNotFound>>,
      <<ErrNearMiss>>, <<ErrNotFound, ErrUnauthorized>>,
      <<ErrNotFound, ErrNearMiss>> }

\* The "errors" member of a JSON object body: absent, null or a list.
ErrorsValues ==
    { [t |-> "absent", list |-> <<>>], [t |-> "null", list |-> <<>>] }
    \cup { [t |-> "list", list |-> l] : l \in ErrorLists }

\* The errors values that are combined with every data value.
CommonErrorsValues ==
    { [t |-> "absent", list |-> <<>>], [t |-> "null", list |-> <<>>],
      [t |-> "list", list |-> <<>>], [t |-> "list", list |-> <<ErrUnauthorized>>] }

\* The "data" member of a JSON object body: absent, null, {} or
\* {"health": {"status": "ok"}}.
DataValues == {"absent", "null", "empty", "health"}

\* A body without members (the fields a non-object body does not have).
NoErrors == [t |-> "absent", list |-> <<>>]

Plain(t, s) == [t |-> t, s |-> s, data |-> "absent", errors |-> NoErrors]

Object(d, e) == [t |-> "obj", s |-> "", data |-> d, errors |-> e]

\* Response bodies: text that is not JSON, or the JSON documents null, a
\* number, a string, the empty list, or an object.
Bodies ==
    { Plain("notjson", ""), Plain("null", ""), Plain("num", ""),
      Plain("str", "no data, errors"), Plain("str", "ok"), Plain("list", "") }
    \cup { Object(d, e) : d \in DataValues, e \in CommonErrorsValues }
    \cup { Object("absent", e) : e \in ErrorsValues }

\* Bodies sent with a status other than 200.
ErrorBodies ==
    { Plain("notjson", ""),
      Object("absent", [t |-> "list", list |-> <<ErrUnauthorized>>]),
      Object("health", NoErrors) }

\* Outcome of one requests.post: an exception, or a response.
Raised(e) ==
    [kind |-> "error", exc |-> e, status_code |-> 0, body |-> Plain("notjson", "")]

Http(s, b) == [kind |-> "http", exc |-> "", status_code |-> s, body |-> b]

Outcomes ==
    { Raised(e) : e \in TransportErrors }
    \cup { Http(200, b) : b \in Bodies }
    \cup { Http(s, b) : s \in Statuses \ {200}, b \in ErrorBodies }

\* Default behaviours of a target: unreachable, rejecting every request,
\* serving data, serving health data next to an authorization error (the
\* one answer every probe accepts), serving a page that is not JSON,
\* serving an empty object.
Defaults ==
    { Raised("Timeout"),
      Http(401, Object("absent", [t |-> "list", list |-> <<ErrUnauthorized>>])),
      Http(200, Object("health", NoErrors)),
      Http(200, Object("health", [t |-> "list", list |-> <<ErrUnauthorized>>])),
      Http(200, Plain("notjson", "")),
      Http(200, Object("absent", NoErrors)) }

(***************************************************************************)
(* Python's evaluation of the conditions the handlers apply to a decoded   *)
(* body.  An evaluation yields "True", "False", or the exception it        *)
(* raises.                                                                 *)
(***************************************************************************)
\* response.json() raises when the body is not JSON.
JsonRaises(body) == body.t = "notjson"

\* `key in doc`: membership of a key in a dict, of an element in a list,
\* of a substring in a str; None and numbers are not iterable.
In(key, doc) ==
    CASE doc.t = "obj"  -> IF key = "data" THEN
                               IF doc.data # "absent" THEN "True" ELSE "False"
                           ELSE IF key = "errors" THEN
                               IF doc.errors.t # "absent" THEN "True" ELSE "False"
                           ELSE "False"
      [] doc.t = "str"  -> IF Contains(key, doc.s) THEN "True" ELSE "False"
      [] doc.t = "list" -> "False"
      [] OTHER          -> "TypeError"

\* HasHealth without the second conjunct: `'data' in data`.
HasHealthDataOnly(doc) == In("data", doc)

\* `'data' in data and 'health' in data['data']`
HasHealth(doc) ==
    IF In("data", doc) # "True" THEN In("data", doc)
    ELSE IF doc.t # "obj" THEN "TypeError"
    ELSE CASE doc.data = "null"   -> "TypeError"
           [] doc.data = "empty"  -> "False"
           [] doc.data = "health" -> "True"

\* str(error) of one element of data['errors'].
Str(error) ==
    IF error.t = "str" THEN error.message
    ELSE "{'message': '" \o error.message \o "'}"

\* MentionsAuth without .lower(): a case-sensitive match.
MentionsAuthCased(error) ==
    \/ Contains("auth", Str(error))
    \/ Contains("permission", Str(error))

\* 'auth' in str(error).lower() or 'permission' in str(error).lower()
MentionsAuth(error) ==
    \/ Contains("auth", Lower(Str(error)))
    \/ Contains("permission", Lower(Str(error)))

\* The elements of the error lists for which the test above is true.
AuthErrors ==
    {error \in {ErrUnauthorized, ErrPermission, ErrNotFound, ErrNearMiss} :
        MentionsAuth(error)}

\* any(... for error in data['errors'])
AuthError(doc) ==
    IF doc.t # "obj" THEN "TypeError"
    ELSE IF doc.errors.t = "null" THEN "TypeError"
    ELSE IF \E k \in 1..Len(doc.errors.list) : doc.errors.list[k] \in AuthErrors
         THEN "True" ELSE "False"

(***************************************************************************)
(* TestResult and the verdict each handler appends for one outcome.        *)
(***************************************************************************)
TestResult(name, passed, message, response_code) ==
    [name |-> name, passed |-> passed, message |-> message,
     response_code |-> response_code]

\* GraphqlResult counting every response as available, whatever its status.
GraphqlResultAnyStatus(o) ==
    LET name == "GraphQL Endpoint Available" IN
    IF o.kind = "error" THEN
        TestResult(name, FALSE,
                   "Failed to connect to GraphQL endpoint: " \o o.exc, None)
    ELSE
        TestResult(name, TRUE, "GraphQL endpoint is responding",
                   Some(o.status_code))

GraphqlResult(o) ==
    LET name == "GraphQL Endpoint Available" IN
    IF o.kind = "error" THEN
        TestResult(name, FALSE,
                   "Failed to connect to GraphQL endpoint: " \o o.exc, None)
    ELSE IF o.status_code = 200 THEN
        TestResult(name, TRUE, "GraphQL endpoint is responding",
                   Some(o.status_code))
    ELSE
        TestResult(name, FALSE,
                   "GraphQL endpoint returned status " \o IntText(o.status_code),
                   Some(o.status_code))

\* HealthResult with the except branch dropping {e} from the message.
HealthResultNoCause(o) ==
    LET name == "Health Endpoint No Auth Required"
        failed(e) == TestResult(name, FALSE, "Health endpoint test failed", None)
    IN
    IF o.kind = "error" THEN failed(o.exc)
    ELSE IF o.status_code = 200 THEN
        IF JsonRaises(o.body) THEN failed("JSONDecodeError")
        ELSE IF HasHealth(o.body) = "TypeError" THEN failed("TypeError")
        ELSE IF HasHealth(o.body) = "True" THEN
            TestResult(name, TRUE,
                       "Health endpoint accessible without authentication",
                       Some(o.status_code))
        ELSE
            TestResult(name, FALSE,
                       "Health endpoint returned unexpected format",
                       Some(o.status_code))
    ELSE
        TestResult(name, FALSE,
                   "Health endpoint returned status " \o IntText(o.status_code),
                   Some(o.status_code))

HealthResult(o) ==
    LET name == "Health Endpoint No Auth Required"
        failed(e) == TestResult(name, FALSE,
                                "Health endpoint test failed: " \o e, None)
    IN
    IF o.kind = "error" THEN failed(o.exc)
    ELSE IF o.status_code = 200 THEN
        IF JsonRaises(o.body) THEN failed("JSONDecodeError")
        ELSE IF HasHealth(o.body) = "TypeError" THEN failed("TypeError")
        ELSE IF HasHealth(o.body) = "True" THEN
            TestResult(name, TRUE,
                       "Health endpoint accessible without authentication",
                       Some(o.status_code))
        ELSE
            TestResult(name, FALSE,
                       "Health endpoint returned unexpected format",
                       Some(o.status_code))
    ELSE
        TestResult(name, FALSE,
                   "Health endpoint returned status " \o IntText(o.status_code),
                   Some(o.status_code))

\* UnauthResult counting a 401 as a rejection.
UnauthResultAccepts401(idx, o) ==
    LET name == "Protected Query " \o IntText(idx + 1) \o " Requires Auth"
        failed(e) == TestResult(name, FALSE, "Test failed: " \o e, None)
    IN
    IF o.kind = "error" THEN failed(o.exc)
    ELSE IF o.status_code = 200 THEN
        IF JsonRaises(o.body) THEN failed("JSONDecodeError")
        ELSE IF In("errors", o.body) = "TypeError" THEN failed("TypeError")
        ELSE IF In("errors", o.body) = "True" THEN
            IF AuthError(o.body) = "TypeError" THEN failed("TypeError")
            ELSE IF AuthError(o.body) = "True" THEN
                TestResult(name, TRUE,
                           "Protected query correctly rejected without auth",
                           Some(o.status_code))
            ELSE
                TestResult(name, FALSE,
                           "Protected query should require authentication",
                           Some(o.status_code))
        ELSE
            TestResult(name, FALSE,
                "Protected query returned success without auth - security issue!",
                Some(o.status_code))
    ELSE
        TestResult(name, o.status_code = 401,
                   "Unexpected status code: " \o IntText(o.status_code),
                   Some(o.status_code))

\* UnauthResult reporting a body without errors through the except branch.
UnauthResultLeakAsError(idx, o) ==
    LET name == "Protected Query " \o IntText(idx + 1) \o " Requires Auth"
        failed(e) == TestResult(name, FALSE, "Test failed: " \o e, None)
    IN
    IF o.kind = "error" THEN failed(o.exc)
    ELSE IF o.status_code = 200 THEN
        IF JsonRaises(o.body) THEN failed("JSONDecodeError")
        ELSE IF In("errors", o.body) = "TypeError" THEN failed("TypeError")
        ELSE IF In("errors", o.body) = "True" THEN
            IF AuthError(o.body) = "TypeError" THEN failed("TypeError")
            ELSE IF AuthError(o.body) = "True" THEN
                TestResult(name, TRUE,
                           "Protected query correctly rejected without auth",
                           Some(o.status_code))
            ELSE
                TestResult(name, FALSE,
                           "Protected query should require authentication",
                           Some(o.status_code))
        ELSE failed("no errors")
    ELSE
        TestResult(name, FALSE,
                   "Unexpected status code: " \o IntText(o.status_code),
                   Some(o.status_code))

UnauthResult(idx, o) ==
    LET name == "Protected Query " \o IntText(idx + 1) \o " Requires Auth"
        failed(e) == TestResult(name, FALSE, "Test failed: " \o e, None)
    IN
    IF o.kind = "error" THEN failed(o.exc)
    ELSE IF o.status_code = 200 THEN
        IF JsonRaises(o.body) THEN failed("JSONDecodeError")
        ELSE IF In("errors", o.body) = "TypeError" THEN failed("TypeError")
        ELSE IF In("errors", o.body) = "True" THEN
            IF AuthError(o.body) = "TypeError" THEN failed("TypeError")
            ELSE IF AuthError(o.body) = "True" THEN
                TestResult(name, TRUE,
                           "Protected query correctly rejected without auth",
                           Some(o.status_code))
            ELSE
                TestResult(name, FALSE,
                           "Protected query should require authentication",
                           Some(o.status_code))
        ELSE
            TestResult(name, FALSE,
                "Protected query returned success without auth - security issue!",
                Some(o.status_code))
    ELSE
        TestResult(name, FALSE,
                   "Unexpected status code: " \o IntText(o.status_code),
                   Some(o.status_code))

\* DemoResult as a purely informational entry: passed whatever the outcome.
DemoResultAlwaysPassed(o) ==
    LET name == "Demo Mode Detection" IN
    IF o.kind = "error" THEN
        TestResult(name, TRUE, "Demo mode test failed: " \o o.exc, None)
    ELSE IF o.status_code = 200 THEN
        TestResult(name, TRUE,
                   "Demo mode test completed (check server logs for warnings)",
                   Some(o.status_code))
    ELSE
        TestResult(name, TRUE,
                   "Could not test demo mode: status " \o IntText(o.status_code),
                   Some(o.status_code))

DemoResult(o) ==
    LET name == "Demo Mode Detection" IN
    IF o.kind = "error" THEN
        TestResult(name, FALSE, "Demo mode test failed: " \o o.exc, None)
    ELSE IF o.status_code = 200 THEN
        TestResult(name, TRUE,
                   "Demo mode test completed (check server logs for warnings)",
                   Some(o.status_code))
    ELSE
        TestResult(name, FALSE,
                   "Could not test demo mode: status " \o IntText(o.status_code),
                   Some(o.status_code))

\* BypassResult failing only a body that has a data member.
BypassResultNeedsData(idx, o) ==
    LET name == "Bypass Attempt " \o IntText(idx + 1) \o " Blocked"
        caught(e) == TestResult(name, TRUE,
                        "Bypass attempt caused error (likely blocked): " \o e,
                        None)
    IN
    IF o.kind = "error" THEN caught(o.exc)
    ELSE IF o.status_code = 200 THEN
        IF JsonRaises(o.body) THEN caught("JSONDecodeError")
        ELSE IF In("errors", o.body) = "TypeError" THEN caught("TypeError")
        ELSE IF In("errors", o.body) = "True" THEN
            TestResult(name, TRUE, "Potential bypass attempt properly rejected",
                       Some(o.status_code))
        ELSE
            TestResult(name, In("data", o.body) # "True",
                       "Potential bypass attempt was not rejected - investigate!",
                       Some(o.status_code))
    ELSE
        TestResult(name, TRUE,
                   "Bypass attempt rejected with status " \o IntText(o.status_code),
                   Some(o.status_code))

\* BypassResult with an except branch that appends a failed verdict.
BypassResultFailsOnError(idx, o) ==
    LET name == "Bypass Attempt " \o IntText(idx + 1) \o " Blocked"
        caught(e) == TestResult(name, FALSE,
                        "Bypass attempt caused error (likely blocked): " \o e,
                        None)
    IN
    IF o.kind = "error" THEN caught(o.exc)
    ELSE IF o.status_code = 200 THEN
        IF JsonRaises(o.body) THEN caught("JSONDecodeError")
        ELSE IF In("errors", o.body) = "TypeError" THEN caught("TypeError")
        ELSE IF In("errors", o.body) = "True" THEN
            TestResult(name, TRUE, "Potential bypass attempt properly rejected",
                       Some(o.status_code))
        ELSE
            TestResult(name, FALSE,
                       "Potential bypass attempt was not rejected - investigate!",
                       Some(o.status_code))
    ELSE
        TestResult(name, TRUE,
                   "Bypass attempt rejected with status " \o IntText(o.status_code),
                   Some(o.status_code))

BypassResult(idx, o) ==
    LET name == "Bypass Attempt " \o IntText(idx + 1) \o " Blocked"
        caught(e) == TestResult(name, TRUE,
                        "Bypass attempt caused error (likely blocked): " \o e,
                        None)
    IN
    IF o.kind = "error" THEN caught(o.exc)
    ELSE IF o.status_code = 200 THEN
        IF JsonRaises(o.body) THEN caught("JSONDecodeError")
        ELSE IF In("errors", o.body) = "TypeError" THEN caught("TypeError")
        ELSE IF In("errors", o.body) = "True" THEN
            TestResult(name, TRUE, "Potential bypass attempt properly rejected",
                       Some(o.status_code))
        ELSE
            TestResult(name, FALSE,
                       "Potential bypass attempt was not rejected - investigate!",
                       Some(o.status_code))
    ELSE
        TestResult(name, TRUE,
                   "Bypass attempt rejected with status " \o IntText(o.status_code),
                   Some(o.status_code))

\* The burst ended by an exception of requests.post.
RateFailure(e) ==
    TestResult("Rate Limiting Active", FALSE,
               "Rate limiting test failed: " \o e, None)

\* RateResult failing a burst in which no request was throttled.
RateResultStrict(statuses) ==
    IF \E k \in 1..Len(statuses) : statuses[k] = 429 THEN
        TestResult("Rate Limiting Active", TRUE,
                   "Rate limiting is active (some requests returned 429)", None)
    ELSE
        TestResult("Rate Limiting Active", FALSE,
            "Rate limiting test completed (no 429s - may not be configured)",
            None)

\* RateResult echoing the status of the last request of the burst.
RateResultWithCode(statuses) ==
    IF \E k \in 1..Len(statuses) : statuses[k] = 429 THEN
        TestResult("Rate Limiting Active", TRUE,
                   "Rate limiting is active (some requests returned 429)",
                   Some(statuses[Len(statuses)]))
    ELSE
        TestResult("Rate Limiting Active", TRUE,
            "Rate limiting test completed (no 429s - may not be configured)",
            Some(statuses[Len(statuses)]))

\* The burst completed: rate_limited = any(status == 429 for status in responses)
RateResult(statuses) ==
    IF \E k \in 1..Len(statuses) : statuses[k] = 429 THEN
        TestResult("Rate Limiting Active", TRUE,
                   "Rate limiting is active (some requests returned 429)", None)
    ELSE
        TestResult("Rate Limiting Active", TRUE,
            "Rate limiting test completed (no 429s - may not be configured)",
            None)

(***************************************************************************)
(* The run.                                                                *)
(***************************************************************************)
\* len(protected_queries), len(bypass_attempts), range(10)
ProtectedQueries == 2

BypassAttempts == 3

BurstSize == 10

Probing == {"graphql", "health", "unauth", "demo", "bypass", "rate"}

\* The state after AuthorizationVerifier.__init__, before run_all_tests.
Init ==
    /\ pc = "graphql"
    /\ i = 0
    /\ results = <<>>
    /\ responses = <<>>
    /\ response = None
    /\ inflight = 0
    /\ requests = 0
    /\ stdout = <<>>
    /\ success = None
    /\ exitcode = None
    /\ target \in Defaults
    /\ deviations = 0
    /\ files = <<>>
    /\ files0 = <<>>
    /\ frame = <<>>

\* The target answers a request with outcome o.
Answers(o) ==
    /\ \/ o = target
       \/ deviations < MaxDeviations /\ o \in Outcomes
    /\ deviations' = IF o = target THEN deviations ELSE deviations + 1
    /\ UNCHANGED target

\* Post without waiting for the pending request: requests are pipelined.
PostPipelined ==
    /\ pc \in Probing
    /\ inflight < 2
    /\ inflight' = inflight + 1
    /\ requests' = requests + 1
    /\ UNCHANGED <<pc, i, results, responses, response, stdout, success,
                   exitcode, target, deviations>>
    /\ UNCHANGED migration

\* requests.post(...) is called: the request is on its way.
Post ==
    /\ pc \in Probing
    /\ inflight = 0
    /\ inflight' = 1
    /\ requests' = requests + 1
    /\ UNCHANGED <<pc, i, results, responses, response, stdout, success,
                   exitcode, target, deviations>>
    /\ UNCHANGED migration

\* The pending requests.post returns or raises with outcome o.
Completes(o) ==
    /\ inflight = 1
    /\ Answers(o)
    /\ inflight' = 0
    /\ response' = Some(o)
    /\ UNCHANGED <<requests, stdout, success, exitcode>>
    /\ UNCHANGED migration

\* test_graphql_endpoint ending the probes when the endpoint cannot be
\* reached: the run goes straight to the report.
test_graphql_endpoint_gives_up ==
    /\ pc = "graphql"
    /\ \E o \in Outcomes :
        /\ Completes(o)
        /\ results' = Append(results, GraphqlResult(o))
        /\ pc' = IF o.kind = "error" THEN "print" ELSE "health"
    /\ UNCHANGED <<i, responses>>

test_graphql_endpoint ==
    /\ pc = "graphql"
    /\ \E o \in Outcomes :
        /\ Completes(o)
        /\ results' = Append(results, GraphqlResult(o))
    /\ pc' = "health"
    /\ UNCHANGED <<i, responses>>

\* test_health_endpoint with response.json() outside the try: a body that
\* is not JSON raises out of run_all_tests and main.
test_health_endpoint_uncaught ==
    /\ pc = "health"
    /\ \E o \in Outcomes :
        /\ Completes(o)
        /\ IF o.kind = "http" /\ o.status_code = 200 /\ JsonRaises(o.body)
           THEN pc' = "crashed" /\ UNCHANGED results
           ELSE pc' = "unauth" /\ results' = Append(results, HealthResult(o))
    /\ i' = 0
    /\ UNCHANGED responses

\* test_health_endpoint whose verdict depends on more than the outcome: on
\* some runs the same answer is judged the other way.
test_health_endpoint_flaky ==
    /\ pc = "health"
    /\ \E o \in Outcomes :
        /\ Completes(o)
        /\ \E p \in BOOLEAN :
              results' = Append(results, [HealthResult(o) EXCEPT !.passed = p])
    /\ pc' = "unauth"
    /\ i' = 0
    /\ UNCHANGED responses

test_health_endpoint ==
    /\ pc = "health"
    /\ \E o \in Outcomes :
        /\ Completes(o)
        /\ results' = Append(results, HealthResult(o))
    /\ pc' = "unauth"
    /\ i' = 0
    /\ UNCHANGED responses

\* One iteration of the loop over protected_queries.
test_unauthenticated_requests ==
    /\ pc = "unauth"
    /\ \E o \in Outcomes :
        /\ Completes(o)
        /\ results' = Append(results, UnauthResult(i, o))
    /\ IF i + 1 < ProtectedQueries
       THEN pc' = "unauth" /\ i' = i + 1
       ELSE pc' = "demo" /\ i' = 0
    /\ UNCHANGED responses

\* test_demo_mode re-issuing a request that ended in a transport failure.
test_demo_mode_retries ==
    /\ pc = "demo"
    /\ \E o \in Outcomes :
        /\ Completes(o)
        /\ IF o.kind = "error"
           THEN pc' = "demo" /\ UNCHANGED results
           ELSE pc' = "bypass" /\ results' = Append(results, DemoResult(o))
    /\ i' = 0
    /\ UNCHANGED responses

test_demo_mode ==
    /\ pc = "demo"
    /\ \E o \in Outcomes :
        /\ Completes(o)
        /\ results' = Append(results, DemoResult(o))
    /\ pc' = "bypass"
    /\ i' = 0
    /\ UNCHANGED responses

\* test_authorization_bypass_attempts with the try around the whole loop:
\* an exception ends the loop.
test_authorization_bypass_attempts_abort ==
    /\ pc = "bypass"
    /\ \E o \in Outcomes :
        /\ Completes(o)
        /\ results' = Append(results, BypassResult(i, o))
        /\ IF i + 1 < BypassAttempts /\ o.kind # "error"
           THEN pc' = "bypass" /\ i' = i + 1
           ELSE pc' = "rate" /\ i' = 0
    /\ UNCHANGED responses

\* One iteration of the loop over bypass_attempts.
test_authorization_bypass_attempts ==
    /\ pc = "bypass"
    /\ \E o \in Outcomes :
        /\ Completes(o)
        /\ results' = Append(results, BypassResult(i, o))
    /\ IF i + 1 < BypassAttempts
       THEN pc' = "bypass" /\ i' = i + 1
       ELSE pc' = "rate" /\ i' = 0
    /\ UNCHANGED responses

\* test_rate_limiting with an except branch that appends no TestResult.
test_rate_limiting_silent ==
    /\ pc = "rate"
    /\ \E o \in Outcomes :
        /\ Completes(o)
        /\ IF o.kind = "error" THEN
               /\ UNCHANGED <<results, responses, i>>
               /\ pc' = "print"
           ELSE
               /\ responses' = Append(responses, o.status_code)
               /\ i' = i + 1
               /\ IF i + 1 < BurstSize
                  THEN pc' = "rate" /\ UNCHANGED results
                  ELSE /\ pc' = "print"
                       /\ results' = Append(results, RateResult(responses'))

\* One request of the burst: its status code is recorded; the tenth one
\* ends the burst with the verdict, an exception ends it at once.
test_rate_limiting ==
    /\ pc = "rate"
    /\ \E o \in Outcomes :
        /\ Completes(o)
        /\ IF o.kind = "error" THEN
               /\ results' = Append(results, RateFailure(o.exc))
               /\ UNCHANGED <<responses, i>>
               /\ pc' = "print"
           ELSE
               /\ responses' = Append(responses, o.status_code)
               /\ i' = i + 1
               /\ IF i + 1 < BurstSize
                  THEN pc' = "rate" /\ UNCHANGED results
                  ELSE /\ pc' = "print"
                       /\ results' = Append(results, RateResult(responses'))

\* One block of the report: glyph, name with optional code, message.
\* The two glyphs (check mark, cross) are written "PASS" and "FAIL".
ReportBlock(result) ==
    [status  |-> IF result.passed THEN "PASS" ELSE "FAIL",
     name    |-> result.name,
     code    |-> IF Truthy(result.response_code)
                 THEN " [" \o IntText(result.response_code[1]) \o "]"
                 ELSE "",
     message |-> result.message]

\* print_results consuming the list while it prints it.
print_results_clears ==
    /\ pc = "print"
    /\ stdout' = [k \in 1..Len(results) |-> ReportBlock(results[k])]
    /\ results' = <<>>
    /\ pc' = "return"
    /\ UNCHANGED <<i, responses, response, inflight, requests,
                   success, exitcode, target, deviations>>
    /\ UNCHANGED migration

print_results ==
    /\ pc = "print"
    /\ stdout' = [k \in 1..Len(results) |-> ReportBlock(results[k])]
    /\ pc' = "return"
    /\ UNCHANGED <<i, results, responses, response, inflight, requests,
                   success, exitcode, target, deviations>>
    /\ UNCHANGED migration

\* passed_tests = sum(1 for r in self.results if r.passed)
PassedTests(rs) == Cardinality({k \in 1..Len(rs) : rs[k].passed})

\* OverallSuccess satisfied by any passed test.
OverallSuccessAny(rs) == PassedTests(rs) >= 1

\* OverallSuccess tolerating one failed test.
OverallSuccessButOne(rs) == PassedTests(rs) >= Len(rs) - 1

\* The tail of run_all_tests: the counts and the returned boolean.
OverallSuccess(rs) == PassedTests(rs) = Len(rs)

run_all_tests ==
    /\ pc = "return"
    /\ success' = Some(OverallSuccess(results))
    /\ pc' = "exit"
    /\ UNCHANGED <<i, results, responses, response, inflight, requests,
                   stdout, exitcode, target, deviations>>
    /\ UNCHANGED migration

\* ExitCode with the two codes exchanged.
ExitCodeSwapped(ok) == IF ok THEN 1 ELSE 0

\* sys.exit(0 if success else 1)
ExitCode(ok) == IF ok THEN 0 ELSE 1

main ==
    /\ pc = "exit"
    /\ exitcode' = Some(ExitCode(success[1]))
    /\ pc' = "done"
    /\ UNCHANGED <<i, results, responses, response, inflight, requests,
                   stdout, success, target, deviations>>
    /\ UNCHANGED migration

Next ==
    \/ Post
    \/ test_graphql_endpoint
    \/ test_health_endpoint
    \/ test_unauthenticated_requests
    \/ test_demo_mode
    \/ test_authorization_bypass_attempts
    \/ test_rate_limiting
    \/ print_results
    \/ run_all_tests
    \/ main

Spec == Init /\ [][Next]_vars

\* The run is sequential and every request ends (response or timeout), so
\* each enabled step is eventually taken.
FairSpec == Spec /\ WF_vars(Next)

(***************************************************************************)
(* docs/.archive/migrations/migrate_docs.py: migrate_files.                *)
(*                                                                         *)
(* The file system is the environment: a file is absent or holds a text;   *)
(* a file may be unreadable, and mkdir, read_text, write_text and unlink    *)
(* may each raise.                                                         *)
(***************************************************************************)
\* The first entries of MIGRATION_MAP (old path, new path).
MIGRATION_MAP ==
    << <<"administrators/overview.md", "admin/README.md">>,
       <<"administrators/configuration/index.md", "admin/configuration/README.md">>,
       <<"administrators/configuration/environment.md",
         "admin/configuration/environment.md">>,
       <<"administrators/configuration/files.md",
         "admin/configuration/application.md">> >>

Entries == 1..MapSize

old_path(k) == MIGRATION_MAP[k][1]

new_path(k) == MIGRATION_MAP[k][2]

Paths == {old_path(k) : k \in Entries} \cup {new_path(k) : k \in Entries}

\* A path with no file, and a file with its text.
Absent == <<>>

File(readable, text) == [readable |-> readable, text |-> text]

\* old_file.exists() / new_file.exists()
Exists(path) == files[path] # Absent

\* Texts of the documentation files before the migration, and the text of
\* a file already present at a new path.
Texts == {"see /Users/Index.md", "no links"}

Stale == "stale"

\* re.sub(old, new, content, flags=re.IGNORECASE) for a literal pattern:
\* the matches are found from left to right and do not overlap.
MatchesAt(old, content, k) ==
    /\ k + Len(old) - 1 <= Len(content)
    /\ Lower(SubSeq(content, k, k + Len(old) - 1)) = Lower(old)

RECURSIVE SubFrom(_, _, _, _)
SubFrom(old, new, content, k) ==
    IF k > Len(content) THEN ""
    ELSE IF MatchesAt(old, content, k)
         THEN new \o SubFrom(old, new, content, k + Len(old))
         ELSE SubSeq(content, k, k) \o SubFrom(old, new, content, k + 1)

\* The replacements list of update_links, the patterns as the text they match.
Replacements ==
    << <<"/administrators/", "/admin/">>,
       <<"/developers/", "/developer/">>,
       <<"/users/", "/user/">>,
       <<"administrators/", "admin/">>,
       <<"developers/", "developer/">>,
       <<"users/", "user/">>,
       <<"index.md", "README.md">>,
       <<"Index.md", "README.md">> >>

RECURSIVE ReplaceFrom(_, _)
ReplaceFrom(content, n) ==
    IF n > Len(Replacements) THEN content
    ELSE ReplaceFrom(SubFrom(Replacements[n][1], Replacements[n][2], content, 1),
                     n + 1)

update_links(content) == ReplaceFrom(content, 1)

\* migrate_files has been called: migrated = [], failed = [], the loop is
\* at the first entry.  Each source is absent, a file or an unreadable
\* file; each destination is absent or a file left by an earlier run.
MigrateInit ==
    /\ pc = "not run"
    /\ i = 0
    /\ results = <<>>
    /\ responses = <<>>
    /\ response = None
    /\ inflight = 0
    /\ requests = 0
    /\ stdout = <<>>
    /\ success = None
    /\ exitcode = None
    /\ target = None
    /\ deviations = 0
    /\ files \in
          { f \in [Paths -> {Absent, File(FALSE, "no links"), File(TRUE, Stale)}
                            \cup {File(TRUE, t) : t \in Texts}] :
              \A k \in Entries :
                  /\ f[old_path(k)] # File(TRUE, Stale)
                  /\ f[new_path(k)] \in {Absent, File(TRUE, Stale)} }
    /\ files0 = files
    /\ frame = [pc |-> "exists", entry |-> 1, content |-> "",
                migrated |-> <<>>, failed |-> <<>>]

\* The loop goes to the next entry of MIGRATION_MAP, or the function returns.
NextEntry(fr) ==
    [fr EXCEPT !.entry = fr.entry + 1,
               !.content = "",
               !.pc = IF fr.entry + 1 > MapSize THEN "returned" ELSE "exists"]

Failed(fr, reason) ==
    [fr EXCEPT !.failed =
        Append(fr.failed, <<old_path(fr.entry), new_path(fr.entry), reason>>)]

\* if old_file.exists(): ... else: if not new_file.exists(): failed.append(...)
old_file_exists ==
    /\ frame.pc = "exists"
    /\ IF Exists(old_path(frame.entry))
       THEN frame' = [frame EXCEPT !.pc = "mkdir"]
       ELSE IF ~Exists(new_path(frame.entry))
            THEN frame' = NextEntry(Failed(frame, "Source file not found"))
            ELSE frame' = NextEntry(frame)
    /\ UNCHANGED <<files, files0, verifier>>

\* new_file.parent.mkdir(parents=True, exist_ok=True), outside the try: an
\* exception leaves migrate_files.
mkdir ==
    /\ frame.pc = "mkdir"
    /\ \/ frame' = [frame EXCEPT !.pc = "read_text"]
       \/ frame' = [frame EXCEPT !.pc = "raised"]
    /\ UNCHANGED <<files, files0, verifier>>

\* read_text that takes the file away as it reads it.
read_text_moves ==
    /\ frame.pc = "read_text"
    /\ LET old == files[old_path(frame.entry)] IN
       \/ /\ old.readable
          /\ frame' = [frame EXCEPT !.pc = "write_text",
                                    !.content = update_links(old.text)]
          /\ files' = [files EXCEPT ![old_path(frame.entry)] = Absent]
       \/ /\ frame' = NextEntry(Failed(frame, "PermissionError"))
          /\ UNCHANGED files
    /\ UNCHANGED <<files0, verifier>>

\* content = old_file.read_text(); content = update_links(content)
read_text ==
    /\ frame.pc = "read_text"
    /\ LET old == files[old_path(frame.entry)] IN
       \/ /\ old.readable
          /\ frame' = [frame EXCEPT !.pc = "write_text",
                                    !.content = update_links(old.text)]
       \/ frame' = NextEntry(Failed(frame, "PermissionError"))
    /\ UNCHANGED <<files, files0, verifier>>

\* new_file.write_text(content); migrated.append((old_path, new_path)).
\* A write that raises leaves the destination as it was, or truncated.
write_text ==
    /\ frame.pc = "write_text"
    /\ LET new == new_path(frame.entry) IN
       \/ /\ files' = [files EXCEPT ![new] = File(TRUE, frame.content)]
          /\ frame' = [frame EXCEPT
                          !.pc = "unlink",
                          !.migrated = Append(frame.migrated,
                                              <<old_path(frame.entry), new>>)]
       \/ /\ \E left \in {files[new], File(TRUE, "")} :
                files' = [files EXCEPT ![new] = left]
          /\ frame' = NextEntry(Failed(frame, "OSError"))
    /\ UNCHANGED <<files0, verifier>>

\* old_file.unlink()
unlink ==
    /\ frame.pc = "unlink"
    /\ \/ /\ files' = [files EXCEPT ![old_path(frame.entry)] = Absent]
          /\ frame' = NextEntry(frame)
       \/ /\ frame' = NextEntry(Failed(frame, "PermissionError"))
          /\ UNCHANGED files
    /\ UNCHANGED <<files0, verifier>>

MigrateNext ==
    \/ old_file_exists
    \/ mkdir
    \/ read_text
    \/ write_text
    \/ unlink

MigrateSpec == MigrateInit /\ [][MigrateNext]_vars

(***************************************************************************)
(* Vocabulary of the properties.                                           *)
(***************************************************************************)
StartsWith(s, prefix) ==
    Len(s) >= Len(prefix) /\ SubSeq(s, 1, Len(prefix)) = prefix

EndsWith(s, suffix) ==
    Len(s) >= Len(suffix) /\ SubSeq(s, Len(s) - Len(suffix) + 1, Len(s)) = suffix

\* The probes are over: the report is being or has been produced.
Finished == pc \in {"print", "return", "exit", "done"}

\* The names of the nine probes of a run.
ProbeNames ==
    { "GraphQL Endpoint Available", "Health Endpoint No Auth Required",
      "Protected Query 1 Requires Auth", "Protected Query 2 Requires Auth",
      "Demo Mode Detection", "Bypass Attempt 1 Blocked",
      "Bypass Attempt 2 Blocked", "Bypass Attempt 3 Blocked",
      "Rate Limiting Active" }

VerdictsNamed(n) == {k \in 1..Len(results) : results[k].name = n}

IsBypass(r) == StartsWith(r.name, "Bypass Attempt ")

IsProtected(r) == StartsWith(r.name, "Protected Query ")

\* Every request so far ended in a transport failure: the target's default
\* is an exception and it has not deviated from it.
Unreachable == target.kind = "error" /\ deviations = 0

\* The verdict appended last was decided from `response`, for the probes
\* before the burst (the burst overwrites `response` with each request).
Judged(k) == Len(results) = k /\ responses = <<>> /\ response # None

(***************************************************************************)
(* C1: a finished run holds exactly nine verdicts, one per probe name,     *)
(* whatever the requests' outcomes; at no time does a probe have two       *)
(* verdicts, and no verdict belongs to no probe.                           *)
(***************************************************************************)
C1_OneVerdictPerProbe ==
    /\ \A k \in 1..Len(results) : results[k].name \in ProbeNames
    /\ \A n \in ProbeNames : Cardinality(VerdictsNamed(n)) <= 1
    /\ Finished =>
         /\ Len(results) = 9
         /\ \A n \in ProbeNames : Cardinality(VerdictsNamed(n)) = 1

\* A finished run of an unreachable target one of whose requests was
\* answered with a body that is not JSON.
C1_Witness ==
    /\ pc = "done"
    /\ target.kind = "error"
    /\ Len(results) = 9
    /\ \E k \in 1..Len(results) : EndsWith(results[k].message, "JSONDecodeError")

(***************************************************************************)
(* C2 (as claimed): with an unreachable target every verdict of the run,   *)
(* bypass attempts and rate limiting included, is failed and its message   *)
(* carries the transport error.                                            *)
(***************************************************************************)
C2_AllFailedWhenUnreachable ==
    (pc = "done" /\ Unreachable) =>
        \A k \in 1..Len(results) :
            /\ ~results[k].passed
            /\ EndsWith(results[k].message, target.exc)

(***************************************************************************)
(* C2 (amended): with an unreachable target every verdict's message        *)
(* carries the transport error; the verdict is failed for every probe      *)
(* except the bypass attempts, whose verdicts are passed.                  *)
(***************************************************************************)
C2_UnreachableVerdicts ==
    Unreachable =>
        /\ \A k \in 1..Len(results) :
            /\ EndsWith(results[k].message, ": " \o target.exc)
            /\ results[k].passed <=> IsBypass(results[k])
        /\ Finished => Len(results) = 9

C2_Witness ==
    /\ pc = "done"
    /\ Unreachable
    /\ target.exc = "Timeout"
    /\ \E k \in 1..Len(results) : IsBypass(results[k]) /\ results[k].passed
    /\ \E k \in 1..Len(results) : ~IsBypass(results[k]) /\ ~results[k].passed

(***************************************************************************)
(* C3: when every request of the run ends in a transport failure,          *)
(* run_all_tests returns False and main exits with a non-zero code.        *)
(***************************************************************************)
C3_UnreachableExitsNonZero ==
    Unreachable =>
        /\ pc \in {"exit", "done"} => success = Some(FALSE)
        /\ pc = "done" => exitcode # None /\ exitcode[1] # 0

C3_Witness ==
    /\ pc = "done"
    /\ Unreachable
    /\ requests = 9
    /\ success = Some(FALSE)
    /\ exitcode = Some(1)

(***************************************************************************)
(* C4: a protected-query verdict is passed exactly when the response has   *)
(* status 200 and its body holds an error list one of whose errors, as     *)
(* text, contains "auth" or "permission" in any letter case; a 200 with    *)
(* an empty error list, or with errors none of which has a keyword, is     *)
(* failed.                                                                 *)
(***************************************************************************)
\* word occurs in text when letter case is ignored (word is lower case).
Mentions(word, text) ==
    \E k \in 1..(Len(text) - Len(word) + 1) :
        \A j \in 1..Len(word) :
            LowerChar(SubSeq(text, k + j - 1, k + j - 1)) = SubSeq(word, j, j)

HasErrorList(o) ==
    /\ o.kind = "http"
    /\ o.status_code = 200
    /\ o.body.t = "obj"
    /\ o.body.errors.t = "list"

KeywordRejection(o) ==
    /\ HasErrorList(o)
    /\ \E k \in 1..Len(o.body.errors.list) :
          \/ Mentions("auth", Str(o.body.errors.list[k]))
          \/ Mentions("permission", Str(o.body.errors.list[k]))

C4_ProtectedPassedIffKeyword ==
    \A k \in 1..Len(results) :
        (Judged(k) /\ IsProtected(results[k])) =>
            /\ results[k].passed <=> KeywordRejection(response[1])
            /\ (HasErrorList(response[1]) /\ response[1].body.errors.list = <<>>)
                   => ~results[k].passed
            /\ (HasErrorList(response[1])
                /\ response[1].body.errors.list \in
                       {<<ErrNotFound>>, <<ErrNearMiss>>, <<ErrNotFound, ErrNearMiss>>})
                   => ~results[k].passed

\* The second protected query answered 200 with the one error
\* "No PERMISSION": passed through the case-insensitive match.
C4_Witness ==
    /\ Judged(4)
    /\ IsProtected(results[4])
    /\ HasErrorList(response[1])
    /\ response[1].body.errors.list = <<ErrPermission>>
    /\ results[4].passed

(***************************************************************************)
(* C5 (as claimed): when the target answers 401 to every protected query   *)
(* and every bypass payload, all protected-query verdicts and all          *)
(* bypass-attempt verdicts are passed.                                     *)
(***************************************************************************)
\* The target answers 401 by default.
Rejecting == target.kind = "http" /\ target.status_code = 401

C5_AllPassedOn401 ==
    (pc = "done" /\ Rejecting /\ deviations = 0) =>
        \A k \in 1..Len(results) :
            (IsProtected(results[k]) \/ IsBypass(results[k])) => results[k].passed

(***************************************************************************)
(* C5 (amended): a 401 makes a bypass-attempt verdict passed and a         *)
(* protected-query verdict failed ("Unexpected status code: 401", code     *)
(* 401); so a target that answers 401 to every protected query and bypass  *)
(* payload gets all bypass verdicts passed and all protected-query         *)
(* verdicts failed.  The availability verdict is passed exactly on status  *)
(* 200 and the health verdict only on status 200, whatever the other       *)
(* probes received.                                                        *)
(***************************************************************************)
Got401(o) == o.kind = "http" /\ o.status_code = 401

Got200(o) == o.kind = "http" /\ o.status_code = 200

C5_VerdictsOn401 ==
    /\ \A k \in 1..Len(results) :
          Judged(k) =>
            /\ (IsBypass(results[k]) /\ Got401(response[1])) => results[k].passed
            /\ (IsProtected(results[k]) /\ Got401(response[1])) =>
                   /\ ~results[k].passed
                   /\ results[k].message = "Unexpected status code: 401"
                   /\ results[k].response_code = Some(401)
            /\ results[k].name = "GraphQL Endpoint Available" =>
                   (results[k].passed <=> Got200(response[1]))
            /\ results[k].name = "Health Endpoint No Auth Required" =>
                   (results[k].passed => Got200(response[1]))
    /\ (Finished /\ Rejecting /\ deviations = 0) =>
          \A k \in 1..Len(results) :
              /\ IsBypass(results[k]) => results[k].passed
              /\ IsProtected(results[k]) => ~results[k].passed

\* A finished run against a target that answers 401, except for the
\* availability request, which it answered with 200.
C5_Witness ==
    /\ pc = "done"
    /\ Rejecting
    /\ deviations = 1
    /\ results[1].passed
    /\ \A k \in 1..Len(results) :
          /\ IsBypass(results[k]) => results[k].passed
          /\ IsProtected(results[k]) => ~results[k].passed

(***************************************************************************)
(* C6: a protected query answered 200 with a data member and no errors     *)
(* member gets a failed verdict with the security-issue message and the    *)
(* status code 200; the verdict for a transport failure of the same probe  *)
(* has no status code and a message carrying the transport error, so the   *)
(* two are distinguishable.                                                *)
(***************************************************************************)
Leak(o) ==
    /\ Got200(o)
    /\ o.body.t = "obj"
    /\ o.body.data # "absent"
    /\ o.body.errors.t = "absent"

C6_LeakIsSecurityFailure ==
    \A k \in 1..Len(results) :
        (Judged(k) /\ IsProtected(results[k])) =>
            /\ Leak(response[1]) =>
                  /\ ~results[k].passed
                  /\ results[k].message =
                       "Protected query returned success without auth - security issue!"
                  /\ results[k].response_code = Some(200)
                  /\ \A e \in TransportErrors : ~EndsWith(results[k].message, e)
            /\ response[1].kind = "error" =>
                  /\ ~results[k].passed
                  /\ results[k].response_code = None
                  /\ results[k].message = "Test failed: " \o response[1].exc

C6_Witness ==
    /\ Judged(3)
    /\ IsProtected(results[3])
    /\ Leak(response[1])
    /\ response[1].body.data = "health"
    /\ ~results[3].passed

(***************************************************************************)
(* C7 (as claimed): the rate-limit verdict is passed for every outcome of  *)
(* the burst, a transport failure during the burst included.               *)
(***************************************************************************)
C7_RateAlwaysPassed ==
    \A k \in 1..Len(results) :
        results[k].name = "Rate Limiting Active" => results[k].passed

(***************************************************************************)
(* C7 (amended): the rate-limit verdict is passed exactly when all ten     *)
(* requests of the burst got a response, whatever their status codes, and  *)
(* the message alone tells whether a 429 was seen; a transport failure     *)
(* during the burst gives a failed verdict carrying the error.             *)
(***************************************************************************)
C7_RatePassedIffBurstCompleted ==
    \A k \in 1..Len(results) :
        results[k].name = "Rate Limiting Active" =>
            /\ results[k].passed <=> Len(responses) = 10
            /\ results[k].passed =>
                  (results[k].message =
                       "Rate limiting is active (some requests returned 429)"
                   <=> \E j \in 1..Len(responses) : responses[j] = 429)
            /\ ~results[k].passed =>
                  /\ response[1].kind = "error"
                  /\ results[k].message =
                       "Rate limiting test failed: " \o response[1].exc

\* The fourth request of the burst failed.
C7_Witness ==
    /\ pc = "done"
    /\ Len(results) = 9
    /\ results[9].name = "Rate Limiting Active"
    /\ ~results[9].passed
    /\ Len(responses) = 3

(***************************************************************************)
(* C8 (as claimed): a bypass-attempt verdict is failed exactly when the    *)
(* response has status 200, no error collection and a data member.         *)
(***************************************************************************)
C8_BypassFailedIffData ==
    \A k \in 1..Len(results) :
        (Judged(k) /\ IsBypass(results[k])) =>
            (~results[k].passed <=>
                /\ Got200(response[1])
                /\ response[1].body.t = "obj"
                /\ response[1].body.errors.t = "absent"
                /\ response[1].body.data # "absent")

(***************************************************************************)
(* C8 (amended): a bypass-attempt verdict is failed exactly when the       *)
(* response has status 200 and its body is a JSON document in which        *)
(* "errors" is not found (an object without an errors member, a list or    *)
(* string without it); whether a data member is present plays no part, so  *)
(* a 200 body with neither data nor errors is failed too.  Every other     *)
(* outcome gives a passed verdict.                                         *)
(***************************************************************************)
LacksErrors(body) ==
    CASE body.t = "obj"  -> body.errors.t = "absent"
      [] body.t = "list" -> TRUE
      [] body.t = "str"  -> ~Mentions("errors", body.s)
      [] OTHER           -> FALSE

C8_BypassFailedIffNoErrors ==
    \A k \in 1..Len(results) :
        (Judged(k) /\ IsBypass(results[k])) =>
            (~results[k].passed <=>
                (Got200(response[1]) /\ LacksErrors(response[1].body)))

\* The first bypass payload answered 200 with the empty object.
C8_Witness ==
    /\ Judged(6)
    /\ IsBypass(results[6])
    /\ response[1] = Http(200, Object("absent", NoErrors))
    /\ ~results[6].passed

(***************************************************************************)
(* C9: a bypass attempt whose request times out, or fails with another     *)
(* transport error, gets a passed verdict, and the loop goes on with the   *)
(* next payload: a finished run has a verdict for each of the three.       *)
(***************************************************************************)
C9_BypassTimeoutPasses ==
    /\ \A k \in 1..Len(results) :
          (Judged(k) /\ IsBypass(results[k]) /\ response[1].kind = "error") =>
              /\ results[k].passed
              /\ results[k].name # "Bypass Attempt 3 Blocked" => pc = "bypass"
              /\ results[k].name = "Bypass Attempt 1 Blocked" => i = 1
              /\ results[k].name = "Bypass Attempt 2 Blocked" => i = 2
    /\ Finished =>
          \A n \in {"Bypass Attempt 1 Blocked", "Bypass Attempt 2 Blocked",
                    "Bypass Attempt 3 Blocked"} :
              Cardinality(VerdictsNamed(n)) = 1

\* The first payload timed out against a target that otherwise responds,
\* and the other two payloads have been probed since.
C9_Witness ==
    /\ Judged(8)
    /\ target.kind = "http"
    /\ results[6].passed
    /\ results[6].message = "Bypass attempt caused error (likely blocked): Timeout"
    /\ IsBypass(results[7])
    /\ IsBypass(results[8])

(***************************************************************************)
(* C10: no failure inside a probe aborts the run: once a request has       *)
(* failed (transport error or timeout) or was answered 200 with a body     *)
(* that is not JSON or JSON of an unexpected shape, the run still reaches  *)
(* its end with all nine verdicts, the report printed and a boolean        *)
(* returned.                                                               *)
(***************************************************************************)
ProbeFailure(o) ==
    \/ o.kind = "error"
    \/ /\ Got200(o)
       /\ \/ o.body.t \in {"notjson", "null", "num", "str", "list"}
          \/ o.body.data = "null"
          \/ o.body.errors.t = "null"

RunCompleted ==
    /\ pc = "done"
    /\ Len(results) = 9
    /\ Len(stdout) = 9
    /\ success \in {Some(TRUE), Some(FALSE)}

FailureSeen == response # None /\ ProbeFailure(response[1])

C10_FailureNeverAborts == FailureSeen ~> RunCompleted

\* A finished run one of whose probes met JSON of an unexpected shape.
C10_Witness ==
    /\ RunCompleted
    /\ \E k \in 1..Len(results) : EndsWith(results[k].message, "TypeError")
(***************************************************************************)
(* C11: at every moment the number of passed verdicts is at most the       *)
(* number of verdicts, and the value run_all_tests returns is True         *)
(* exactly when every verdict of the list is passed (passed count = total).*)
(***************************************************************************)
RECURSIVE CountPassed(_, _)
CountPassed(rs, k) ==
    IF k = 0 THEN 0
    ELSE CountPassed(rs, k - 1) + (IF rs[k].passed THEN 1 ELSE 0)

AllPassed == \A k \in 1..Len(results) : results[k].passed

C11_SuccessIffAllPassed ==
    /\ CountPassed(results, Len(results)) <= Len(results)
    /\ success # None =>
          /\ success \in {Some(TRUE), Some(FALSE)}
          /\ success = Some(TRUE) <=> CountPassed(results, Len(results)) = Len(results)
          /\ success = Some(TRUE) <=> AllPassed

\* run_all_tests has just returned True for nine passed verdicts.
C11_Witness ==
    /\ pc = "exit"
    /\ success = Some(TRUE)
    /\ Len(results) = 9
    /\ AllPassed

(***************************************************************************)
(* C12: the process exit code is 0 exactly when every verdict of the run   *)
(* is passed and 1 otherwise; the verdicts' passed flags decide it alone.  *)
(***************************************************************************)
C12_ExitZeroIffAllPassed ==
    /\ exitcode # None <=> pc = "done"
    /\ pc = "done" =>
          /\ exitcode \in {Some(0), Some(1)}
          /\ exitcode = Some(0) <=> AllPassed
          /\ ~AllPassed => exitcode[1] # 0

\* A finished process with exit code 0.
C12_Witness ==
    /\ pc = "done"
    /\ exitcode = Some(0)
    /\ Len(results) = 9
    /\ deviations = 0
(***************************************************************************)
(* C13 (as claimed): a status-200 response whose body is not JSON or       *)
(* lacks the expected fields yields a failed verdict for the health, the   *)
(* protected-query and the bypass-attempt probes.                          *)
(***************************************************************************)
IsHealth(r) == r.name = "Health Endpoint No Auth Required"

\* The body is not JSON, or is JSON without the member the probe looks for.
ShapeFailure(r, o) ==
    /\ Got200(o)
    /\ \/ IsHealth(r) /\ ~(o.body.t = "obj" /\ o.body.data = "health")
       \/ IsProtected(r) /\ ~(o.body.t = "obj" /\ o.body.errors.t # "absent")
       \/ IsBypass(r) /\ ~(o.body.t = "obj" /\ o.body.errors.t # "absent")

C13_ShapeFailureFails ==
    \A k \in 1..Len(results) :
        (Judged(k) /\ ShapeFailure(results[k], response[1])) => ~results[k].passed

(***************************************************************************)
(* C13 (amended): a status-200 response whose body is not JSON or lacks    *)
(* the expected fields yields a failed verdict with a descriptive message  *)
(* for the health and the protected-query probes.  For a bypass attempt a  *)
(* JSON body in which "errors" is not found is failed, but a body that     *)
(* is not JSON, or is JSON null or a number, goes through the except       *)
(* branch and yields a passed verdict ("caused error (likely blocked)").   *)
(* In no case does the run end: the next probe follows.                    *)
(***************************************************************************)
Uninspectable(body) == body.t \in {"notjson", "null", "num"}

C13_ShapeFailureVerdicts ==
    \A k \in 1..Len(results) :
        (Judged(k) /\ ShapeFailure(results[k], response[1])) =>
            /\ pc \in Probing
            /\ IsHealth(results[k]) =>
                  /\ ~results[k].passed
                  /\ results[k].message \in
                        { "Health endpoint returned unexpected format",
                          "Health endpoint test failed: JSONDecodeError",
                          "Health endpoint test failed: TypeError" }
            /\ IsProtected(results[k]) =>
                  /\ ~results[k].passed
                  /\ results[k].message \in
                        { "Protected query returned success without auth - security issue!",
                          "Test failed: JSONDecodeError",
                          "Test failed: TypeError" }
            /\ (IsBypass(results[k]) /\ Uninspectable(response[1].body)) =>
                  /\ results[k].passed
                  /\ results[k].message \in
                        { "Bypass attempt caused error (likely blocked): JSONDecodeError",
                          "Bypass attempt caused error (likely blocked): TypeError" }
            /\ (IsBypass(results[k]) /\ LacksErrors(response[1].body)) =>
                  /\ ~results[k].passed
                  /\ results[k].message =
                        "Potential bypass attempt was not rejected - investigate!"

\* The second bypass payload answered 200 with a page that is not JSON.
C13_Witness ==
    /\ Judged(7)
    /\ IsBypass(results[7])
    /\ Got200(response[1])
    /\ response[1].body.t = "notjson"
    /\ results[7].passed
    /\ pc = "bypass"
(***************************************************************************)
(* C14: the verdicts are in the list in the fixed probe order, whatever    *)
(* the responses: availability, health, protected query 1 and 2, demo      *)
(* mode, bypass attempt 1, 2 and 3, rate limiting; the list is at every    *)
(* moment a prefix of that order and a finished run has all nine.          *)
(***************************************************************************)
ProbeOrder ==
    << "GraphQL Endpoint Available", "Health Endpoint No Auth Required",
       "Protected Query 1 Requires Auth", "Protected Query 2 Requires Auth",
       "Demo Mode Detection", "Bypass Attempt 1 Blocked",
       "Bypass Attempt 2 Blocked", "Bypass Attempt 3 Blocked",
       "Rate Limiting Active" >>

C14_FixedProbeOrder ==
    /\ Len(results) <= Len(ProbeOrder)
    /\ \A k \in 1..Len(results) : results[k].name = ProbeOrder[k]
    /\ Finished => Len(results) = Len(ProbeOrder)

\* A finished run whose first probe failed and whose later probes passed
\* in part and failed in part.
C14_Witness ==
    /\ pc = "done"
    /\ [k \in 1..Len(results) |-> results[k].name] = ProbeOrder
    /\ ~results[1].passed
    /\ \E k \in 2..Len(results) : results[k].passed
    /\ \E k \in 2..Len(results) : ~results[k].passed
(***************************************************************************)
(* C15: there are no retries.  Each probe before the burst issues exactly  *)
(* one request whatever its outcome; the burst issues at most ten and      *)
(* stops at its first transport failure; a run issues between 9 and 18     *)
(* requests.                                                               *)
(***************************************************************************)
C15_NoRetries ==
    /\ pc \in Probing \ {"rate"} =>
          /\ requests = Len(results) + inflight
          /\ responses = <<>>
    /\ pc = "rate" =>
          /\ Len(results) = 8
          /\ Len(responses) < 10
          /\ requests = 8 + Len(responses) + inflight
    /\ Finished =>
          /\ inflight = 0
          /\ Len(responses) <= 10
          /\ requests \in 9..18
          /\ \A k \in 1..Len(results) :
                results[k].name = "Rate Limiting Active" =>
                    /\ results[k].passed => requests = 8 + 10
                    /\ ~results[k].passed =>
                          /\ requests = 8 + Len(responses) + 1
                          /\ response[1].kind = "error"

\* A finished run whose burst ended at its fifth request.
C15_Witness ==
    /\ pc = "done"
    /\ requests = 13
    /\ Len(responses) = 4
    /\ response[1].kind = "error"

\* The fewest and the most requests a run can issue.
C15_FewestRequests == pc = "done" /\ requests = 9

C15_MostRequests == pc = "done" /\ requests = 18

(***************************************************************************)
(* C16: the health verdict is passed exactly when the response has status  *)
(* 200 and the decoded body has a data member holding a health entry       *)
(* (200 with {"data":{"health":{"status":"ok"}}} passes); any other        *)
(* status, a 200 body without data.health and a transport error all give   *)
(* a failed verdict.                                                       *)
(***************************************************************************)
HealthPayload(o) ==
    /\ Got200(o)
    /\ o.body.t = "obj"
    /\ o.body.data = "health"

C16_HealthPassedIffPayload ==
    \A k \in 1..Len(results) :
        (Judged(k) /\ IsHealth(results[k])) =>
            /\ results[k].passed <=> HealthPayload(response[1])
            /\ response[1] = Http(200, Object("health", NoErrors)) => results[k].passed
            /\ response[1].kind = "error" => ~results[k].passed
            /\ (response[1].kind = "http" /\ response[1].status_code # 200)
                   => ~results[k].passed
            /\ (Got200(response[1]) /\ response[1].body.data \in {"absent", "null", "empty"})
                   => ~results[k].passed

\* The health request answered 200 with {"data":{"health":{"status":"ok"}}}.
C16_Witness ==
    /\ Judged(2)
    /\ IsHealth(results[2])
    /\ response[1] = Http(200, Object("health", NoErrors))
    /\ results[2].passed

(***************************************************************************)
(* C17: the availability verdict is passed exactly when the response       *)
(* status is 200, whatever the body (not JSON, null, any object); every    *)
(* other status and every transport error give a failed verdict.           *)
(***************************************************************************)
IsAvailability(r) == r.name = "GraphQL Endpoint Available"

C17_AvailabilityPassedIff200 ==
    \A k \in 1..Len(results) :
        (Judged(k) /\ IsAvailability(results[k])) =>
            /\ results[k].passed <=>
                  (response[1].kind = "http" /\ response[1].status_code = 200)
            /\ \A b \in Bodies : response[1] = Http(200, b) => results[k].passed
            /\ response[1].kind = "error" => ~results[k].passed
            /\ (response[1].kind = "http" /\ response[1].status_code \in {401, 429})
                   => ~results[k].passed

\* The availability request answered 200 with a page that is not JSON.
C17_Witness ==
    /\ Judged(1)
    /\ IsAvailability(results[1])
    /\ response[1] = Http(200, Plain("notjson", ""))
    /\ results[1].passed
(***************************************************************************)
(* C18: the demo-mode check and the overall result.  Two runs that get the *)
(* same outcome for every other request and differ only at the demo-mode   *)
(* request have the same verdicts everywhere but at the demo verdict, so   *)
(* the second run is the finished run with that one verdict recomputed.    *)
(***************************************************************************)
IsDemo(r) == r.name = "Demo Mode Detection"

\* The verdict list of the run that differs only by outcome o of the
\* demo-mode request.
WithDemoOutcome(rs, o) ==
    [k \in 1..Len(rs) |-> IF IsDemo(rs[k]) THEN DemoResult(o) ELSE rs[k]]

OthersAllPassed(rs) == \A k \in 1..Len(rs) : IsDemo(rs[k]) \/ rs[k].passed

SameEnd(rs, o) ==
    /\ Some(OverallSuccess(WithDemoOutcome(rs, o))) = success
    /\ Some(ExitCode(OverallSuccess(WithDemoOutcome(rs, o)))) = exitcode

\* C18 as stated: the outcome of the demo-mode request (200, another status
\* or a transport failure) never changes the overall success value or the
\* exit code.
C18_DemoNeverDecides ==
    pc = "done" => \A o \in Outcomes : SameEnd(results, o)

\* C18, amended: the demo verdict is passed exactly on status 200 (the body
\* is not looked at) and failed on any other status or a transport failure,
\* and it counts like every other verdict: the two runs end alike exactly
\* when their demo verdicts agree or some other verdict has failed.
C18_DemoCountsLikeAnyVerdict ==
    /\ \A k \in 1..Len(results) :
          (Judged(k) /\ IsDemo(results[k])) =>
              (results[k].passed <=>
                  (response[1].kind = "http" /\ response[1].status_code = 200))
    /\ pc = "done" =>
          \A o \in Outcomes :
              SameEnd(results, o) <=>
                  \/ \E k \in 1..Len(results) :
                        IsDemo(results[k]) /\ results[k].passed = DemoResult(o).passed
                  \/ ~OthersAllPassed(results)

\* Every other verdict passed and the demo-mode request failed: exit code 1.
C18_Witness ==
    /\ pc = "done"
    /\ OthersAllPassed(results)
    /\ \E k \in 1..Len(results) : IsDemo(results[k]) /\ ~results[k].passed
    /\ exitcode = Some(1)
    /\ SameEnd(results, Raised("Timeout"))
    /\ ~SameEnd(results, Http(200, Object("health", NoErrors)))
(***************************************************************************)
(* C19: execution is strictly sequential.  At most one request is in       *)
(* flight; the request of a probe is in flight only when the verdicts of   *)
(* all the probes before it are in the list; a timeout gives the probe a   *)
(* transport-error verdict (no status code, the exception's text in the    *)
(* message) and the run goes on to the next probe.                         *)
(***************************************************************************)
\* The probe that runs when k verdicts have been appended.
ProbeAfter(k) ==
    IF k = 0 THEN "graphql"
    ELSE << "health", "unauth", "unauth", "demo", "bypass", "bypass",
            "bypass", "rate" >>[k]

TimedOut == response = Some(Raised("Timeout"))

C19_StrictlySequential ==
    /\ inflight \in {0, 1}
    /\ inflight = 1 =>
          /\ pc \in Probing
          /\ pc = ProbeAfter(Len(results))
          /\ requests = Len(results) + Len(responses) + 1
    /\ \A k \in 1..Len(results) :
          (Judged(k) /\ TimedOut) =>
              /\ results[k].response_code = None
              /\ EndsWith(results[k].message, ": Timeout")
              /\ IF k < 9 THEN pc = ProbeAfter(k) ELSE Finished
    /\ (Finished /\ TimedOut) =>
          /\ ~results[9].passed
          /\ results[9].response_code = None
          /\ EndsWith(results[9].message, ": Timeout")

\* The second protected query timed out, its verdict is in the list and
\* the demo-mode request is now on its way.
C19_Witness ==
    /\ inflight = 1
    /\ pc = "demo"
    /\ Len(results) = 4
    /\ TimedOut
    /\ results[4].response_code = None
    /\ target.kind = "http"
(***************************************************************************)
(* C20: the verdict list is append-only.  Every step leaves the list as    *)
(* it is or appends one verdict at its end, so a verdict in the list       *)
(* keeps its place, name, passed flag, message and status code; printing   *)
(* the report, counting and exiting leave the list untouched.              *)
(***************************************************************************)
AppendsOne(old, new) ==
    /\ Len(new) = Len(old) + 1
    /\ SubSeq(new, 1, Len(old)) = old

C20_AppendOnly ==
    [][ /\ results' = results \/ AppendsOne(results, results')
        /\ \A k \in 1..Len(results) :
              /\ k <= Len(results')
              /\ results'[k].name = results[k].name
              /\ results'[k].passed = results[k].passed
              /\ results'[k].message = results[k].message
              /\ results'[k].response_code = results[k].response_code
        /\ Finished => results' = results ]_vars

\* The report is printed and the counts are computed from a list that
\* still holds the nine verdicts, passed and failed ones among them.
C20_Witness ==
    /\ pc = "done"
    /\ Len(results) = 9
    /\ stdout = [k \in 1..Len(results) |-> ReportBlock(results[k])]
    /\ success = Some(OverallSuccess(results))
    /\ PassedTests(results) \in 1..8
(***************************************************************************)
(* C21: the run is a function of the outcomes of its requests.  The        *)
(* verdict of each probe before the burst is determined by the outcome of  *)
(* that probe's request alone (the probes share no state), the burst's     *)
(* verdict by the statuses collected and the outcome of its last request,  *)
(* the report by the verdict list and the overall success by the verdict   *)
(* list: two runs with the same outcomes agree on all of them.             *)
(***************************************************************************)
\* The verdict the k-th probe derives from outcome o of its request.
ProbeVerdict(k, o) ==
    CASE k = 1        -> GraphqlResult(o)
      [] k = 2        -> HealthResult(o)
      [] k \in {3, 4} -> UnauthResult(k - 3, o)
      [] k = 5        -> DemoResult(o)
      [] k \in 6..8   -> BypassResult(k - 6, o)

\* The verdict of the burst, from the statuses kept and its last outcome.
BurstVerdict(statuses, o) ==
    IF o.kind = "error" THEN RateFailure(o.exc) ELSE RateResult(statuses)

C21_DeterminedByOutcomes ==
    /\ \A k \in 1..8 : Judged(k) => results[k] = ProbeVerdict(k, response[1])
    /\ Finished =>
          /\ results[9] = BurstVerdict(responses, response[1])
          /\ response[1].kind = "http" =>
                responses[Len(responses)] = response[1].status_code
    /\ pc \in {"return", "exit", "done"} =>
          stdout = [k \in 1..Len(results) |-> ReportBlock(results[k])]
    /\ pc \in {"exit", "done"} => success = Some(OverallSuccess(results))
    /\ pc = "done" => exitcode = Some(ExitCode(OverallSuccess(results)))

\* A finished run in which the same answer was given to the health probe,
\* to the first protected query and to the burst: each probe decides on it
\* by its own rule, two verdicts passed and one failed.
C21_Witness ==
    /\ pc = "done"
    /\ response[1] = Http(200, Object("health", NoErrors))
    /\ target = response[1]
    /\ results[2] = HealthResult(target)
    /\ results[2].passed
    /\ results[3] = UnauthResult(0, target)
    /\ ~results[3].passed
    /\ results[9].passed
    /\ Len(stdout) = 9

(***************************************************************************)
(* C22: a verdict carries a status code exactly when the exchange of its   *)
(* probe completed and the classification did not raise.  A verdict from   *)
(* the except branch (transport failure, or a 200 answer whose body cannot *)
(* be decoded or inspected) has none; every other verdict of the           *)
(* availability, health, protected-query, demo-mode and bypass probes      *)
(* echoes the status received; the rate-limit verdict never has one.       *)
(***************************************************************************)
IsRate(r) == r.name = "Rate Limiting Active"

\* Python raises while decoding or inspecting a 200 body: response.json()
\* on text that is not JSON, `in` on None or a number, subscripting a str,
\* `in` or iteration on a member that is null.
ClassificationRaises(r, o) ==
    /\ Got200(o)
    /\ \/ (IsHealth(r) \/ IsProtected(r) \/ IsBypass(r)) /\ Uninspectable(o.body)
       \/ IsHealth(r) /\ o.body.t = "str" /\ Contains("data", o.body.s)
       \/ IsHealth(r) /\ o.body.t = "obj" /\ o.body.data = "null"
       \/ IsProtected(r) /\ o.body.t = "str" /\ Contains("errors", o.body.s)
       \/ IsProtected(r) /\ o.body.t = "obj" /\ o.body.errors.t = "null"

ExceptionPath(r, o) == o.kind = "error" \/ ClassificationRaises(r, o)

C22_StatusCodeIffNoException ==
    /\ \A k \in 1..Len(results) :
          Judged(k) /\ ~IsRate(results[k]) =>
              /\ ExceptionPath(results[k], response[1])
                     => results[k].response_code = None
              /\ ~ExceptionPath(results[k], response[1])
                     => results[k].response_code = Some(response[1].status_code)
    /\ \A k \in 1..Len(results) :
          IsRate(results[k]) => results[k].response_code = None

\* The availability verdict echoes 200, the health verdict of a 200 answer
\* with JSON null has no status code, and the rate-limit verdict of the
\* completed burst has none either.
C22_Witness ==
    /\ pc = "done"
    /\ results[1].response_code = Some(200)
    /\ results[2].message = "Health endpoint test failed: TypeError"
    /\ results[2].response_code = None
    /\ results[9].passed
    /\ results[9].response_code = None
(***************************************************************************)
(* C23: migrate_files removes a source file only after its link-rewritten  *)
(* content has been written to the destination.  At every point of a run,  *)
(* for every entry whose source existed at the start, the source or the    *)
(* destination exists; a source that is gone has left its rewritten text   *)
(* at the destination; a failure while reading or writing leaves the       *)
(* source in place, unchanged, and the entry in the failed list; an entry  *)
(* whose source is missing and whose destination exists is in neither      *)
(* list.                                                                   *)
(***************************************************************************)
InMigrated(k) ==
    \E j \in 1..Len(frame.migrated) :
        frame.migrated[j] = <<old_path(k), new_path(k)>>

InFailed(k) ==
    \E j \in 1..Len(frame.failed) :
        /\ frame.failed[j][1] = old_path(k)
        /\ frame.failed[j][2] = new_path(k)

\* The loop has finished with entry k.
Done(k) == frame.entry > k

SourceAtStart(k) == files0[old_path(k)] # Absent

\* What update_links makes of each text a source file may hold.
Rewritten == [t \in Texts |-> update_links(t)]

C23_SourceRemovedAfterWrite ==
    \A k \in Entries :
        /\ SourceAtStart(k) => Exists(old_path(k)) \/ Exists(new_path(k))
        /\ (SourceAtStart(k) /\ ~Exists(old_path(k))) =>
              /\ files[new_path(k)] =
                     File(TRUE, Rewritten[files0[old_path(k)].text])
              /\ InMigrated(k)
              /\ ~InFailed(k)
        /\ (SourceAtStart(k) /\ InFailed(k)) =>
              files[old_path(k)] = files0[old_path(k)]
        /\ (SourceAtStart(k) /\ Done(k) /\ Exists(old_path(k))) => InFailed(k)
        /\ (SourceAtStart(k) /\ Done(k) /\ ~InMigrated(k)) => InFailed(k)
        /\ (~SourceAtStart(k) /\ files0[new_path(k)] # Absent) =>
              /\ ~InMigrated(k)
              /\ ~InFailed(k)
              /\ files[new_path(k)] = files0[new_path(k)]
        /\ ~SourceAtStart(k) => ~Exists(old_path(k))

\* The call has returned: the first file was moved with its links
\* rewritten, over a file an earlier run had left, and the write of the
\* second file failed after truncating the destination, its source still
\* in place.
C23_Witness ==
    /\ frame.pc = "returned"
    /\ files0[old_path(1)] = File(TRUE, "see /Users/Index.md")
    /\ files0[new_path(1)] = File(TRUE, Stale)
    /\ ~Exists(old_path(1))
    /\ files[new_path(1)] = File(TRUE, "see /user/README.md")
    /\ frame.migrated = << <<old_path(1), new_path(1)>> >>
    /\ frame.failed = << <<old_path(2), new_path(2), "OSError">> >>
    /\ files[old_path(2)] = File(TRUE, "no links")
    /\ files[new_path(2)] = File(TRUE, "")
====
